---- MODULE Spec2Model ----
(***************************************************************************)
(* A state-machine model of ncd_flasher.py: the script that resolves a     *)
(* firmware variant, acquires its binary assets and drives the external    *)
(* flashing tool.  One behaviour of the model is one run of the script.    *)
(***************************************************************************)
EXTENDS Integers, Sequences, FiniteSets, TLC

VARIABLES
    dev,                    \* global dev (--dev)
    no_spiffs,              \* _args.no_spiffs (--no-spiffs)
    spiffs,                 \* global spiffs
    sota,                   \* global sota (--sota)
    cli_firmware_id,        \* global cli_firmware_id (None or the -f value)
    cli_spiffs_project_dir, \* global cli_spiffs_project_dir (None or a path)
    target_port,            \* global target_port
    cwdIsScriptDir,         \* whether os.getcwd() is the directory of the script
    build_env,              \* what the build of the SPIFFS image will meet, when fixed
    pc,                     \* position of the run in the script
    firmware_choice,        \* local firmware_choice
    firmware,               \* local firmware (a catalog profile or None)
    aws_dir_files,          \* names of local_files that line 486 found on disk
    missing_files,          \* local missing_files of the local-override block
    boot_app0_found,        \* what os.path.exists(aws_boot_app0) returned
    acquired,               \* files written by acquisition steps of this run
    fetched,                \* URLs requested from the network, in order
    invocations,            \* calls of esptool.main, in order
    spiffs_built_from,      \* source image copied by build_spiffs_from_project
    out,                    \* lines printed, in order
    raised,                 \* exception propagating out of the try block
    status_code,            \* global status_code
    exit_code               \* argument of the final sys.exit

vars == <<dev, no_spiffs, spiffs, sota, cli_firmware_id, cli_spiffs_project_dir,
          target_port, cwdIsScriptDir, build_env, pc, firmware_choice, firmware,
          aws_dir_files, missing_files, boot_app0_found, acquired, fetched,
          invocations, spiffs_built_from, out, raised, status_code, exit_code>>

\* Python's None, for values that are otherwise strings.
None == "<None>"

\* Python's None, for the profile a failed dict lookup returns.
NoneProfile == [k \in {} |-> ""]

\* dict.get(key): the value, or None when the key is absent.
Get(d, k) == IF k \in DOMAIN d THEN d[k] ELSE None

\* str(value): None becomes the text 'None'.
Str(v) == IF v = None THEN "None" ELSE v

firmware_choices ==
    ("1" :> [name |-> "WiFi AWS Gateway", firmware |-> "https://ncd-esp32.s3.us-east-1.amazonaws.com/Production_AWS/bootloader.bin", spiffs |-> "https://ncd-esp32.s3.us-east-1.amazonaws.com/Production_AWS/spiffs.bin", bootloader |-> "https://ncd-esp32.s3.us-east-1.amazonaws.com/Production_AWS/bootloader.bin", partitions |-> "https://ncd-esp32.s3.us-east-1.amazonaws.com/Production_AWS/partitions.bin"]) @@
    ("2" :> [name |-> "WiFi Azure Gateway", firmware |-> "https://ncd-esp32.s3.amazonaws.com/WiFi_Azure/firmware.bin", spiffs |-> "https://ncd-esp32.s3.amazonaws.com/WiFi_Azure/spiffs.bin", bootloader |-> "https://ncd-esp32.s3.amazonaws.com/WiFi_Azure/bootloader.bin", partitions |-> "https://ncd-esp32.s3.amazonaws.com/WiFi_Azure/partitions.bin"]) @@
    ("3" :> [name |-> "WiFi MQTT Gateway", firmware |-> "https://ncd-esp32.s3.amazonaws.com/WiFi_MQTT/firmware.bin", spiffs |-> "https://ncd-esp32.s3.amazonaws.com/WiFi_MQTT/spiffs.bin", bootloader |-> "https://ncd-esp32.s3.amazonaws.com/WiFi_MQTT/bootloader.bin", partitions |-> "https://ncd-esp32.s3.amazonaws.com/WiFi_MQTT/partitions.bin"]) @@
    ("4" :> [name |-> "WiFi Google IoT Gateway", firmware |-> "https://ncd-esp32.s3.amazonaws.com/WiFi_Google/firmware.bin", spiffs |-> "https://ncd-esp32.s3.amazonaws.com/WiFi_Google/spiffs.bin", bootloader |-> "https://ncd-esp32.s3.amazonaws.com/WiFi_Google/bootloader.bin", partitions |-> "https://ncd-esp32.s3.amazonaws.com/WiFi_Google/partitions.bin"]) @@
    ("5" :> [name |-> "Mega Modem", firmware |-> "https://ncd-esp32.s3.amazonaws.com/Mega_Modem/firmware.bin", spiffs |-> "https://ncd-esp32.s3.amazonaws.com/Mega_Modem/spiffs.bin", bootloader |-> "https://ncd-esp32.s3.amazonaws.com/Mega_Modem/bootloader.bin", partitions |-> "https://ncd-esp32.s3.amazonaws.com/Mega_Modem/partitions.bin"]) @@
    ("6" :> [name |-> "Cellular MQTT Gateway", firmware |-> "https://ncd-esp32.s3.amazonaws.com/Cellular_MQTT/firmware.bin", spiffs |-> "https://ncd-esp32.s3.amazonaws.com/Cellular_MQTT/spiffs.bin", bootloader |-> "https://ncd-esp32.s3.amazonaws.com/Cellular_MQTT/bootloader.bin", partitions |-> "https://ncd-esp32.s3.amazonaws.com/Cellular_MQTT/partitions.bin"]) @@
    ("7" :> [name |-> "Losant Gateway", firmware |-> "https://ncd-esp32.s3.amazonaws.com/WiFi_Losant/firmware.bin", spiffs |-> "https://ncd-esp32.s3.amazonaws.com/WiFi_Losant/spiffs.bin", bootloader |-> "https://ncd-esp32.s3.amazonaws.com/WiFi_Losant/bootloader.bin", partitions |-> "https://ncd-esp32.s3.amazonaws.com/WiFi_Losant/partitions.bin"]) @@
    ("8" :> [name |-> "4 Relay MirPro", firmware |-> "https://ncd-esp32.s3.amazonaws.com/4_Relay_MirPro/firmware.bin", spiffs |-> "https://ncd-esp32.s3.amazonaws.com/4_Relay_MirPro/spiffs.bin", bootloader |-> "https://ncd-esp32.s3.amazonaws.com/4_Relay_MirPro/bootloader.bin", partitions |-> "https://ncd-esp32.s3.amazonaws.com/4_Relay_MirPro/partitions.bin"]) @@
    ("9" :> [name |-> "AWS WiFi Sensor", firmware |-> "https://ncd-esp32.s3.amazonaws.com/AWS_Sensor/firmware.bin", spiffs |-> "https://ncd-esp32.s3.amazonaws.com/AWS_Sensor/spiffs.bin", bootloader |-> "https://ncd-esp32.s3.amazonaws.com/AWS_Sensor/bootloader.bin", partitions |-> "https://ncd-esp32.s3.amazonaws.com/AWS_Sensor/partitions.bin"]) @@
    ("10" :> [name |-> "MQTT WiFi Sensor", firmware |-> "https://ncd-esp32.s3.amazonaws.com/MQTT_Sensor/firmware.bin", spiffs |-> "https://ncd-esp32.s3.amazonaws.com/MQTT_Sensor/spiffs.bin", bootloader |-> "https://ncd-esp32.s3.amazonaws.com/MQTT_Sensor/bootloader.bin", partitions |-> "https://ncd-esp32.s3.amazonaws.com/MQTT_Sensor/partitions.bin"]) @@
    ("11" :> [name |-> "Mirror PR53-4", firmware |-> "https://ncd-esp32.s3.amazonaws.com/Mirror_PR53-4/firmware.bin", spiffs |-> "https://ncd-esp32.s3.amazonaws.com/Mirror_PR53-4/spiffs.bin", bootloader |-> "https://ncd-esp32.s3.amazonaws.com/Mirror_PR53-4/bootloader-dev.bin", partitions |-> "https://ncd-esp32.s3.amazonaws.com/Mirror_PR53-4/partitions.bin"]) @@
    ("12" :> [name |-> "Azure WiFi Sensor", firmware |-> "https://ncd-esp32.s3.amazonaws.com/Azure_Sensor/firmware.bin", spiffs |-> "https://ncd-esp32.s3.amazonaws.com/Azure_Sensor/spiffs.bin", bootloader |-> "https://ncd-esp32.s3.amazonaws.com/Azure_Sensor/bootloader.bin", partitions |-> "https://ncd-esp32.s3.amazonaws.com/Azure_Sensor/partitions.bin"]) @@
    ("13" :> [name |-> "Contact Closure Email Generator", firmware |-> "https://ncd-esp32.s3.amazonaws.com/Email_Generator/firmware.bin", spiffs |-> "https://ncd-esp32.s3.amazonaws.com/Email_Generator/spiffs.bin", bootloader |-> "https://ncd-esp32.s3.amazonaws.com/Email_Generator/bootloader.bin", partitions |-> "https://ncd-esp32.s3.amazonaws.com/Email_Generator/partitions.bin"]) @@
    ("14" :> [name |-> "ESP XBee", firmware |-> "https://ncd-esp32.s3.amazonaws.com/ESP_XBee/firmware.bin", spiffs |-> "https://ncd-esp32.s3.amazonaws.com/ESP_XBee/spiffs.bin", bootloader |-> "https://ncd-esp32.s3.amazonaws.com/ESP_XBee/bootloader.bin", partitions |-> "https://ncd-esp32.s3.amazonaws.com/ESP_XBee/partitions.bin"]) @@
    ("15" :> [name |-> "WiFi Azure Gateway Custom", firmware |-> "https://ncd-esp32.s3.amazonaws.com/WiFi_Azure_Custom/firmware.bin", spiffs |-> "https://ncd-esp32.s3.amazonaws.com/WiFi_Azure_Custom/spiffs.bin", bootloader |-> "https://ncd-esp32.s3.amazonaws.com/WiFi_Azure_Custom/bootloader.bin", partitions |-> "https://ncd-esp32.s3.amazonaws.com/WiFi_Azure_Custom/partitions.bin"]) @@
    ("16" :> [name |-> "4-20mA Input Transmitter 4 channel", firmware |-> "https://ncd-esp32.s3.amazonaws.com/4-20_Input_Mirror_Transmitter_4_Channel/firmware.bin", spiffs |-> "https://ncd-esp32.s3.amazonaws.com/4-20_Input_Mirror_Transmitter_4_Channel/spiffs.bin", bootloader |-> "https://ncd-esp32.s3.amazonaws.com/4-20_Input_Mirror_Transmitter_4_Channel/bootloader.bin", partitions |-> "https://ncd-esp32.s3.amazonaws.com/4-20_Input_Mirror_Transmitter_4_Channel/partitions.bin"]) @@
    ("17" :> [name |-> "Radon MN", firmware |-> "https://ncd-esp32.s3.amazonaws.com/radonmn_mqtt/firmware.bin", spiffs |-> "https://ncd-esp32.s3.amazonaws.com/radonmn_mqtt/spiffs.bin", bootloader |-> "https://ncd-esp32.s3.amazonaws.com/radonmn_mqtt/bootloader.bin", partitions |-> "https://ncd-esp32.s3.amazonaws.com/radonmn_mqtt/partitions.bin"]) @@
    ("18" :> [name |-> "0-10VDC Input Transmitter 4 channel", firmware |-> "https://ncd-esp32.s3.amazonaws.com/0-10V_Input_Mirror_Transmitter_4_Channel/firmware.bin", spiffs |-> "https://ncd-esp32.s3.amazonaws.com/0-10V_Input_Mirror_Transmitter_4_Channel/spiffs.bin", bootloader |-> "https://ncd-esp32.s3.amazonaws.com/0-10V_Input_Mirror_Transmitter_4_Channel/bootloader.bin", partitions |-> "https://ncd-esp32.s3.amazonaws.com/0-10V_Input_Mirror_Transmitter_4_Channel/partitions.bin"]) @@
    ("19" :> [name |-> "Goodtech 4 channel", firmware |-> "https://ncd-esp32.s3.amazonaws.com/Goodtech_4_Relay/firmware.bin", bootloader |-> "https://ncd-esp32.s3.amazonaws.com/Goodtech_4_Relay/bootloader.bin", partitions |-> "https://ncd-esp32.s3.amazonaws.com/Goodtech_4_Relay/partitions.bin"]) @@
    ("20" :> [name |-> "SOTA Relay", firmware |-> "https://ncd-esp32.s3.amazonaws.com/SOTA_Relay/firmware.bin", bootloader |-> "https://ncd-esp32.s3.amazonaws.com/SOTA_Relay/bootloader.bin", partitions |-> "https://ncd-esp32.s3.amazonaws.com/SOTA_Relay/partitions.bin"]) @@
    ("21" :> [name |-> "Goodtech 2 relay 2 dac", firmware |-> "https://ncd-esp32.s3.amazonaws.com/Goodtech_2_Relay_2_Dac/firmware.bin", bootloader |-> "https://ncd-esp32.s3.amazonaws.com/Goodtech_2_Relay_2_Dac/bootloader.bin", partitions |-> "https://ncd-esp32.s3.amazonaws.com/Goodtech_2_Relay_2_Dac/partitions.bin", spiffs |-> "https://ncd-esp32.s3.amazonaws.com/Goodtech_2_Relay_2_Dac/spiffs.bin"]) @@
    ("22" :> [name |-> "RFID"]) @@
    ("23" :> [name |-> "MQTT V2 Temperature/Humidity Sensor", firmware |-> "https://ncd-esp32.s3.amazonaws.com/ESP32_V2_Sensor_Temperature_Humidity/firmware.bin", spiffs |-> "https://ncd-esp32.s3.amazonaws.com/ESP32_V2_Sensor_Temperature_Humidity/spiffs.bin", bootloader |-> "https://ncd-esp32.s3.amazonaws.com/ESP32_V2_Sensor_Temperature_Humidity/bootloader.bin", partitions |-> "https://ncd-esp32.s3.amazonaws.com/ESP32_V2_Sensor_Temperature_Humidity/partitions.bin"]) @@
    ("24" :> [name |-> "SOTA PWM", firmware |-> "https://ncd-esp32.s3.amazonaws.com/SOTA_PWM/firmware.bin", bootloader |-> "https://ncd-esp32.s3.amazonaws.com/SOTA_PWM/bootloader.bin", partitions |-> "https://ncd-esp32.s3.amazonaws.com/SOTA_PWM/partitions.bin"]) @@
    ("25" :> [name |-> "8 Input Mirror Transmitter", firmware |-> "https://ncd-esp32.s3.amazonaws.com/eight_input_seme_mirror/firmware.bin", spiffs |-> "https://ncd-esp32.s3.amazonaws.com/eight_input_seme_mirror/spiffs.bin", bootloader |-> "https://ncd-esp32.s3.amazonaws.com/eight_input_seme_mirror/bootloader.bin", partitions |-> "https://ncd-esp32.s3.amazonaws.com/eight_input_seme_mirror/partitions.bin"]) @@
    ("26" :> [name |-> "Firmware Flasher", firmware |-> "https://ncd-esp32.s3.amazonaws.com/firmware_flasher/firmware.bin", spiffs |-> "https://ncd-esp32.s3.amazonaws.com/firmware_flasher/spiffs.bin", bootloader |-> "https://ncd-esp32.s3.amazonaws.com/firmware_flasher/bootloader.bin", partitions |-> "https://ncd-esp32.s3.amazonaws.com/firmware_flasher/partitions.bin"]) @@
    ("27" :> [name |-> "Stmart Repeater 2", firmware |-> "https://ncd-esp32.s3.amazonaws.com/Smart_Repeater_2/firmware.bin", spiffs |-> "https://ncd-esp32.s3.amazonaws.com/Smart_Repeater_2/spiffs.bin", bootloader |-> "https://ncd-esp32.s3.amazonaws.com/Smart_Repeater_2/bootloader.bin", partitions |-> "https://ncd-esp32.s3.amazonaws.com/Smart_Repeater_2/partitions.bin"]) @@
    ("28" :> [name |-> "MQTT V2 Current Monitor Sensor", firmware |-> "https://ncd-esp32.s3.amazonaws.com/ESP32_V2_Sensor_Current_Monitor/firmware.bin", spiffs |-> "https://ncd-esp32.s3.amazonaws.com/ESP32_V2_Sensor_Current_Monitor/spiffs.bin", bootloader |-> "https://ncd-esp32.s3.amazonaws.com/ESP32_V2_Sensor_Current_Monitor/bootloader.bin", partitions |-> "https://ncd-esp32.s3.amazonaws.com/ESP32_V2_Sensor_Current_Monitor/partitions.bin"]) @@
    ("29" :> [name |-> "4-20mA 4 Channel Output Receiver", firmware |-> "https://ncd-esp32.s3.amazonaws.com/4-20_Output_Mirror_Transmitter_4_Channel/bootloader.bin", spiffs |-> "https://ncd-esp32.s3.amazonaws.com/4-20_Output_Mirror_Transmitter_4_Channel/spiffs.bin", bootloader |-> "https://ncd-esp32.s3.amazonaws.com/4-20_Output_Mirror_Transmitter_4_Channel/bootloader.bin", partitions |-> "https://ncd-esp32.s3.amazonaws.com/4-20_Output_Mirror_Transmitter_4_Channel/partitions.bin"]) @@
    ("30" :> [name |-> "MQTT V2 Push Notification", firmware |-> "https://ncd-esp32.s3.amazonaws.com/ESP32_V2_Push_Notification/firmware.bin", spiffs |-> "https://ncd-esp32.s3.amazonaws.com/ESP32_V2_Push_Notification/spiffs.bin", bootloader |-> "https://ncd-esp32.s3.amazonaws.com/ESP32_V2_Push_Notification/bootloader.bin", partitions |-> "https://ncd-esp32.s3.amazonaws.com/ESP32_V2_Push_Notification/partitions.bin"])

firmware_choices_dev ==
    ("1" :> [name |-> "WiFi AWS Gateway", firmware |-> "https://ncd-esp32.s3.amazonaws.com/WiFi_AWS/firmware-dev.bin", spiffs |-> "https://ncd-esp32.s3.amazonaws.com/WiFi_AWS/spiffs-dev.bin", bootloader |-> "https://ncd-esp32.s3.amazonaws.com/WiFi_AWS/bootloader-dev.bin", partitions |-> "https://ncd-esp32.s3.amazonaws.com/WiFi_AWS/partitions-dev.bin"]) @@
    ("2" :> [name |-> "WiFi Azure Gateway", firmware |-> "https://ncd-esp32.s3.amazonaws.com/WiFi_Azure/firmware-dev.bin", spiffs |-> "https://ncd-esp32.s3.amazonaws.com/WiFi_Azure/spiffs-dev.bin", bootloader |-> "https://ncd-esp32.s3.amazonaws.com/WiFi_Azure/bootloader-dev.bin", partitions |-> "https://ncd-esp32.s3.amazonaws.com/WiFi_Azure/partitions-dev.bin"]) @@
    ("3" :> [name |-> "WiFi MQTT Gateway", firmware |-> "https://ncd-esp32.s3.amazonaws.com/WiFi_MQTT/firmware-dev.bin", spiffs |-> "https://ncd-esp32.s3.amazonaws.com/WiFi_MQTT/spiffs-dev.bin", bootloader |-> "https://ncd-esp32.s3.amazonaws.com/WiFi_MQTT/bootloader-dev.bin", partitions |-> "https://ncd-esp32.s3.amazonaws.com/WiFi_MQTT/partitions-dev.bin"]) @@
    ("4" :> [name |-> "WiFi Google IoT Gateway", firmware |-> "https://ncd-esp32.s3.amazonaws.com/WiFi_Google/firmware-dev.bin", spiffs |-> "https://ncd-esp32.s3.amazonaws.com/WiFi_Google/spiffs-dev.bin", bootloader |-> "https://ncd-esp32.s3.amazonaws.com/WiFi_Google/bootloader-dev.bin", partitions |-> "https://ncd-esp32.s3.amazonaws.com/WiFi_Google/partitions-dev.bin"]) @@
    ("5" :> [name |-> "Mega Modem", firmware |-> "https://ncd-esp32.s3.amazonaws.com/Mega_Modem/firmware-dev.bin", spiffs |-> "https://ncd-esp32.s3.amazonaws.com/Mega_Modem/spiffs-dev.bin", bootloader |-> "https://ncd-esp32.s3.amazonaws.com/Mega_Modem/bootloader-dev.bin", partitions |-> "https://ncd-esp32.s3.amazonaws.com/Mega_Modem/partitions-dev.bin"]) @@
    ("6" :> [name |-> "Cellular MQTT Gateway", firmware |-> "https://ncd-esp32.s3.amazonaws.com/Cellular_MQTT/firmware-dev.bin", spiffs |-> "https://ncd-esp32.s3.amazonaws.com/Cellular_MQTT/spiffs-dev.bin", bootloader |-> "https://ncd-esp32.s3.amazonaws.com/Cellular_MQTT/bootloader-dev.bin", partitions |-> "https://ncd-esp32.s3.amazonaws.com/Cellular_MQTT/partitions-dev.bin"])

\* Ids of the stable table, ids of the dev table.
StableIds == DOMAIN firmware_choices

DevIds == DOMAIN firmware_choices_dev

\* Number of ids outside both tables that an operator may supply.
MaxUnknownIds == 1

UnknownIds == {ToString(98 + i) : i \in 1..MaxUnknownIds}

\* What an operator may pass with -f or type at the firmware prompt.
Inputs == StableIds \cup UnknownIds

Ports == {"/dev/cu.usbserial-0001", "COM3"}

ProjectDirs == {"/work/project"}

\* The names of the local_files dict of the local-override block.
LocalNames == {"firmware", "spiffs", "bootloader", "partitions", "boot_app0"}

\* f'{name}.bin' for the names of local_files.
BinName(name) ==
    CASE name = "firmware" -> "firmware.bin"
      [] name = "spiffs" -> "spiffs.bin"
      [] name = "bootloader" -> "bootloader.bin"
      [] name = "partitions" -> "partitions.bin"
      [] name = "boot_app0" -> "boot_app0.bin"

\* Directory of __location__: realpath(join(getcwd(), dirname(__file__))).
Location == IF cwdIsScriptDir THEN "cwd" ELSE "script"

\* A file an acquisition step wrote: its name, its directory and the step kind.
File(name, dir, by) == [file |-> name, dir |-> dir, by |-> by]

\* A printed line: its fixed text and the values formatted into it.
Line(text) == [text |-> text, arg |-> {}]

LineWith(text, arg) == [text |-> text, arg |-> arg]

\* No exception is propagating.
NoRaise == [kind |-> "none", code |-> 0, msg |-> ""]

\* raise SystemExit(code)
SystemExit(code) == [kind |-> "SystemExit", code |-> code, msg |-> ""]

\* Any exception that is not a SystemExit, with its str().
Exception(msg) == [kind |-> "Exception", code |-> 0, msg |-> msg]

\* Mutation: id 20 is forgotten in the test of line 455.
SpiffsDisabledIdsWithout20 == {"19"}

\* The ids for which line 455 clears the global spiffs.
SpiffsDisabledIds == {"19", "20"}

\* Mutation: id 14 is forgotten in the test of line 549.
CustomLayoutIdsWithout14 == {"5"}

\* The ids whose SPIFFS image is flashed at 0x00383000 (line 549).
CustomLayoutIds == {"5", "14"}

\* The id that is flashed from the bundled AWS directory (lines 472, 543).
LocalOverrideId == "1"

\* The id whose download block is skipped besides the local-override id (line 500).
NoDownloadId == "22"

\* The fixed URLs of the --sota branch.
SotaUrl(kind) ==
    CASE kind = "firmware" -> "https://ncd-esp32.s3.amazonaws.com/SOTA_Relay/firmware.bin"
      [] kind = "partitions" -> "https://ncd-esp32.s3.amazonaws.com/SOTA_Relay/partitions.bin"
      [] kind = "bootloader" -> "https://ncd-esp32.s3.amazonaws.com/SOTA_Relay/bootloader.bin"

\* Mutation: the --sota call is given the two-file list of line 556.
ArgvSotaWithoutPartitions(port) ==
    <<"--chip", "esp32", "--port", port, "--baud", "921600",
      "--before", "default_reset", "--after", "hard_reset", "write_flash", "-z",
      "--flash_mode", "dio", "--flash_freq", "40m", "--flash_size", "detect",
      "0x1000", "bootloader.bin", "0x10000", "firmware.bin">>

\* The argument lists the script passes to esptool.main.
ArgvSota(port) ==
    <<"--chip", "esp32", "--port", port, "--baud", "921600",
      "--before", "default_reset", "--after", "hard_reset", "write_flash", "-z",
      "--flash_mode", "dio", "--flash_freq", "40m", "--flash_size", "detect",
      "0x1000", "bootloader.bin", "0x8000", "partitions.bin",
      "0x10000", "firmware.bin">>

ArgvLocalOverride(port) ==
    <<"--chip", "esp32", "--port", port, "--baud", "460800",
      "--before", "default_reset", "--after", "hard_reset", "write_flash", "-z",
      "--flash_mode", "dio", "--flash_freq", "80m", "--flash_size", "4MB",
      "0x1000", "bootloader.bin", "0x8000", "partitions.bin",
      "0xe000", "boot_app0.bin", "0x10000", "firmware.bin">>

ArgvLocalOverrideSpiffs(port) ==
    <<"--chip", "esp32", "--port", port, "--baud", "460800",
      "write_flash", "0x290000", "spiffs.bin">>

ArgvCustomLayout(port) ==
    <<"--chip", "esp32", "--port", port, "--baud", "921600",
      "--before", "default_reset", "--after", "hard_reset", "write_flash", "-z",
      "--flash_mode", "dio", "--flash_freq", "40m", "--flash_size", "detect",
      "0x1000", "bootloader.bin", "0x8000", "partitions.bin",
      "0x00383000", "spiffs.bin", "0x10000", "firmware.bin">>

\* Mutation: the default list falls back to the four-file layout without boot_app0.
ArgvDefaultSpiffsWithoutBootApp0(port) ==
    <<"--chip", "esp32", "--port", port, "--baud", "921600",
      "--before", "default_reset", "--after", "hard_reset", "write_flash", "-z",
      "--flash_mode", "dio", "--flash_freq", "40m", "--flash_size", "detect",
      "0x1000", "bootloader.bin", "0x8000", "partitions.bin",
      "0x290000", "spiffs.bin", "0x10000", "firmware.bin">>

ArgvDefaultSpiffs(port) ==
    <<"--chip", "esp32", "--port", port, "--baud", "460800",
      "--before", "default_reset", "--after", "hard_reset", "write_flash", "-z",
      "--flash_mode", "dio", "--flash_freq", "80m", "--flash_size", "4MB",
      "0x1000", "bootloader.bin", "0x8000", "partitions.bin",
      "0xe000", "boot_app0.bin", "0x10000", "firmware.bin",
      "0x290000", "spiffs.bin">>

ArgvNoSpiffs(port) ==
    <<"--chip", "esp32", "--port", port, "--baud", "921600",
      "--before", "default_reset", "--after", "hard_reset", "write_flash", "-z",
      "--flash_mode", "dio", "--flash_freq", "40m", "--flash_size", "detect",
      "0x1000", "bootloader.bin", "0x10000", "firmware.bin">>

\* Mutation: the test of line 549 is dropped, every id takes the default list.
UploadArgvWithoutCustomLayout(choice, withSpiffs, port) ==
    IF choice = LocalOverrideId THEN ArgvLocalOverride(port)
    ELSE IF withSpiffs THEN ArgvDefaultSpiffs(port)
    ELSE ArgvNoSpiffs(port)

\* Mutation: the list is chosen by whether boot_app0.bin was found on disk.
UploadArgvByDisk(choice, withSpiffs, port) ==
    IF choice = LocalOverrideId THEN ArgvLocalOverride(port)
    ELSE IF withSpiffs
         THEN IF choice \in CustomLayoutIds THEN ArgvCustomLayout(port)
              ELSE IF boot_app0_found = "absent"
                   THEN ArgvDefaultSpiffsWithoutBootApp0(port)
                   ELSE ArgvDefaultSpiffs(port)
         ELSE ArgvNoSpiffs(port)

\* The first esptool.main argument list of lines 543-556.
UploadArgv(choice, withSpiffs, port) ==
    IF choice = LocalOverrideId THEN ArgvLocalOverride(port)
    ELSE IF withSpiffs
         THEN IF choice \in CustomLayoutIds THEN ArgvCustomLayout(port)
              ELSE ArgvDefaultSpiffs(port)
         ELSE ArgvNoSpiffs(port)

\* Whether lines 543-545 call esptool.main a second time.
HasSecondUpload(choice) == choice = LocalOverrideId

\* The flashing tool's reading of an address argument (int(text, 0)).
AddrValue(text) ==
    CASE text = "0x1000" -> 4096
      [] text = "0x8000" -> 32768
      [] text = "0xe000" -> 57344
      [] text = "0x10000" -> 65536
      [] text = "0x290000" -> 2686976
      [] text = "0x00383000" -> 3682304

\* Position of the first occurrence of x in s, 0 when absent.
IndexOf(s, x) ==
    IF \E i \in 1..Len(s) : s[i] = x
    THEN CHOOSE i \in 1..Len(s) : s[i] = x /\ \A j \in 1..(i - 1) : s[j] # x
    ELSE 0

\* The value the argument list gives for an option, None when it is absent.
Option(argv, name) ==
    LET i == IndexOf(argv, name)
    IN IF i = 0 \/ i = Len(argv) THEN None ELSE argv[i + 1]

RECURSIVE SkipFlashOptions(_)
\* The arguments of write_flash after its options.
SkipFlashOptions(s) ==
    IF s = <<>> THEN s
    ELSE IF s[1] = "-z" THEN SkipFlashOptions(Tail(s))
    ELSE IF s[1] \in {"--flash_mode", "--flash_freq", "--flash_size"}
         THEN SkipFlashOptions(SubSeq(s, 3, Len(s)))
    ELSE s

RECURSIVE AddrFilePairs(_)
\* The (address, file) pairs of a write_flash argument tail.
AddrFilePairs(s) ==
    IF Len(s) < 2 THEN <<>>
    ELSE <<[addr |-> AddrValue(s[1]), file |-> s[2]]>>
         \o AddrFilePairs(SubSeq(s, 3, Len(s)))

\* The ordered (address, file) steps of one invocation.
Steps(argv) ==
    LET i == IndexOf(argv, "write_flash")
    IN AddrFilePairs(SkipFlashOptions(SubSeq(argv, i + 1, Len(argv))))

\* The set of steps of one invocation.
StepSet(argv) == {Steps(argv)[i] : i \in 1..Len(Steps(argv))}

\* What urllib.request.urlretrieve(url, dest) can do: a text that is no URL
\* raises ValueError before any request; a request succeeds or fails.
UrlretrieveOutcomes(url) ==
    IF url = "None"
    THEN {[net |-> FALSE, ok |-> FALSE, msg |-> "unknown url type: 'None'"]}
    ELSE {[net |-> TRUE, ok |-> TRUE, msg |-> ""],
          [net |-> TRUE, ok |-> FALSE, msg |-> "<urlopen error>"]}

\* What esptool.main(argv) can do: return, raise an error, or raise SystemExit.
FlashOutcomes == {"ok", "error", "exit"}

\* The codes of a SystemExit raised inside esptool.main (argparse exits with 2).
FlashExitCodes == {2}

\* Bounds of the build output tree .pio/build that the model enumerates.
MaxEnvDirs == 2

MaxDirFiles == 2

\* File names that may appear in an environment directory of the build tree.
BuildNames == {"spiffs.bin", "SPIFFS_image.bin", "firmware.bin"}

\* name.endswith('.bin') and 'spiffs' in name.lower(), on BuildNames.
HasSpiffsMarker(name) == name \in {"spiffs.bin", "SPIFFS_image.bin"}

\* Listings without repetition of at most n names.
Listings(n) ==
    {l \in UNION {[1..k -> BuildNames] : k \in 0..n} :
        \A i, j \in 1..Len(l) : i # j => l[i] # l[j]}

\* An entry of os.listdir(build_dir): a directory with its listing, or a plain file.
BuildEntries ==
    {[isdir |-> TRUE, names |-> l] : l \in Listings(MaxDirFiles)}
    \cup {[isdir |-> FALSE, names |-> <<>>]}

BuildTrees == UNION {[1..k -> BuildEntries] : k \in 0..MaxEnvDirs}

\* What the environment gives to one call of build_spiffs_from_project.
BuildEnvs ==
    {[isdir |-> FALSE, pio |-> "ok", stderr |-> FALSE, build_dir |-> FALSE, tree |-> <<>>]}
    \cup {[isdir |-> TRUE, pio |-> p, stderr |-> e, build_dir |-> FALSE, tree |-> <<>>] :
            p \in {"failed", "missing", "timeout"}, e \in BOOLEAN}
    \cup {[isdir |-> TRUE, pio |-> "ok", stderr |-> FALSE, build_dir |-> FALSE, tree |-> <<>>]}
    \cup {[isdir |-> TRUE, pio |-> "ok", stderr |-> FALSE, build_dir |-> TRUE, tree |-> t] :
            t \in BuildTrees}

\* No image was copied.
NoImage == [env |-> 0, name |-> ""]

\* Mutation: the exact-name search of lines 92-96 is skipped.
ExactCandidatesSkipped(tree, i) == <<>>

RECURSIVE ExactCandidates(_, _)
\* Lines 92-96: the spiffs.bin of every environment directory, in listing order.
ExactCandidates(tree, i) ==
    IF i > Len(tree) THEN <<>>
    ELSE (IF tree[i].isdir /\ \E j \in 1..Len(tree[i].names) : tree[i].names[j] = "spiffs.bin"
          THEN <<[env |-> i, name |-> "spiffs.bin"]>> ELSE <<>>)
         \o ExactCandidates(tree, i + 1)

RECURSIVE MarkedInDir(_, _, _)
\* Lines 100-102 for one environment directory.
MarkedInDir(names, i, j) ==
    IF j > Len(names) THEN <<>>
    ELSE (IF HasSpiffsMarker(names[j]) THEN <<[env |-> i, name |-> names[j]]>> ELSE <<>>)
         \o MarkedInDir(names, i, j + 1)

RECURSIVE MarkedCandidates(_, _)
\* Lines 98-102: every marked file of every entry, in listing order.
MarkedCandidates(tree, i) ==
    IF i > Len(tree) THEN <<>>
    ELSE MarkedInDir(tree[i].names, i, 1) \o MarkedCandidates(tree, i + 1)

\* build_spiffs_from_project: what it raises, the image it copies, what it prints.
BuildResult(env) ==
    IF ~env.isdir THEN [raise |-> SystemExit(1), src |-> NoImage, lines |-> <<>>]
    ELSE IF env.pio = "failed"
    THEN [raise |-> SystemExit(1), src |-> NoImage,
          lines |-> <<Line("PlatformIO buildfs failed. Ensure the project has a data/ folder and board supports SPIFFS.")>>
                    \o (IF env.stderr THEN <<Line("<stderr>")>> ELSE <<>>)]
    ELSE IF env.pio = "missing"
    THEN [raise |-> SystemExit(1), src |-> NoImage,
          lines |-> <<Line("PlatformIO (pio) not found. Install it or use --no-spiffs and run \"pio run -t uploadfs\" from the project.")>>]
    ELSE IF env.pio = "timeout"
    THEN [raise |-> Exception("<TimeoutExpired>"), src |-> NoImage, lines |-> <<>>]
    ELSE IF ~env.build_dir
    THEN [raise |-> SystemExit(1), src |-> NoImage,
          lines |-> <<Line("Build directory not found after buildfs.")>>]
    ELSE LET exact == ExactCandidates(env.tree, 1)
             listable == \A i \in 1..Len(env.tree) : env.tree[i].isdir
             candidates == IF exact # <<>> THEN exact ELSE MarkedCandidates(env.tree, 1)
         IN IF exact = <<>> /\ ~listable
            THEN [raise |-> Exception("<NotADirectoryError>"), src |-> NoImage, lines |-> <<>>]
            ELSE IF candidates = <<>>
            THEN [raise |-> SystemExit(1), src |-> NoImage,
                  lines |-> <<Line("No spiffs.bin found in .pio/build after buildfs.")>>]
            ELSE [raise |-> NoRaise, src |-> candidates[1],
                  lines |-> <<LineWith("Using SPIFFS image from project: ", {candidates[1].name})>>]

\* The results build_spiffs_from_project can have in some environment.
BuildResults == {BuildResult(env) : env \in BuildEnvs}

\* The build environment is not fixed beforehand: the build may meet any.
AnyEnv == [isdir |-> FALSE, pio |-> "any", stderr |-> FALSE, build_dir |-> FALSE, tree |-> <<>>]

config == <<dev, no_spiffs, sota, cli_firmware_id, cli_spiffs_project_dir,
            target_port, cwdIsScriptDir, build_env>>

\* Lines 140-161: what the argument handling prints.
ArgLines(id, isDev, noSpiffs, isSota, dir, port) ==
    <<LineWith("Using serial port from args: ", {port})>>
    \o (IF id # None THEN <<LineWith("Using firmware ID from args: ", {id})>> ELSE <<>>)
    \o (IF isDev THEN <<Line("Running dev")>> ELSE <<>>)
    \o (IF noSpiffs THEN <<Line("Not flashing spiffs")>> ELSE <<>>)
    \o (IF isSota THEN <<Line("Sota Firmware")>> ELSE <<>>)
    \o (IF dir # None THEN <<LineWith("Using SPIFFS from project: ", {dir})>> ELSE <<>>)

\* The state when the try block of line 433 is entered.
RunInit ==
    /\ dev \in BOOLEAN
    /\ no_spiffs \in BOOLEAN
    /\ spiffs = ~no_spiffs
    /\ sota \in BOOLEAN
    /\ cli_firmware_id \in Inputs \cup {None}
    /\ cli_spiffs_project_dir \in ProjectDirs \cup {None}
    /\ target_port \in Ports
    /\ cwdIsScriptDir \in BOOLEAN
    /\ pc = IF sota THEN "sota_firmware" ELSE "resolve"
    /\ firmware_choice = None
    /\ firmware = NoneProfile
    /\ aws_dir_files = {}
    /\ missing_files = {}
    /\ boot_app0_found = "unchecked"
    /\ acquired = {}
    /\ fetched = <<>>
    /\ invocations = <<>>
    /\ spiffs_built_from = NoImage
    /\ out = ArgLines(cli_firmware_id, dev, no_spiffs, sota, cli_spiffs_project_dir,
                      target_port)
    /\ raised = NoRaise
    /\ status_code = 1
    /\ exit_code = -1

\* A run in an environment that is met step by step.
Init == build_env = AnyEnv /\ RunInit

\* A run for id 3 with a build path, in a build environment fixed beforehand.
SearchInit ==
    /\ dev = FALSE
    /\ no_spiffs = FALSE
    /\ sota = FALSE
    /\ cli_firmware_id = "3"
    /\ cli_spiffs_project_dir = "/work/project"
    /\ target_port = "COM3"
    /\ cwdIsScriptDir = TRUE
    /\ build_env \in BuildEnvs
    /\ RunInit

\* urllib.request.urlretrieve(url, './<file>') between two printed line groups.
Urlretrieve(outcomes, url, file, pre, post, next) ==
    \E r \in outcomes :
        /\ fetched' = IF r.net THEN Append(fetched, url) ELSE fetched
        /\ IF r.ok
           THEN /\ acquired' = acquired \cup {File(file, "cwd", "download")}
                /\ out' = out \o pre \o post
                /\ pc' = next
                /\ raised' = raised
           ELSE /\ acquired' = acquired
                /\ out' = out \o pre
                /\ pc' = "handlers"
                /\ raised' = Exception(r.msg)

\* Mutation: a failure of esptool.main is swallowed and the script goes on.
EsptoolMainSwallowed(argv, next) ==
    \E res \in FlashOutcomes :
        /\ invocations' = Append(invocations, [argv |-> argv, result |-> res])
        /\ pc' = next
        /\ raised' = raised

\* esptool.main(argv): the call is recorded, then it returns or raises.
EsptoolMain(argv, next) ==
    \E res \in FlashOutcomes, code \in FlashExitCodes :
        /\ invocations' = Append(invocations, [argv |-> argv, result |-> res])
        /\ IF res = "ok"
           THEN /\ pc' = next
                /\ raised' = raised
           ELSE /\ pc' = "handlers"
                /\ raised' = IF res = "exit" THEN SystemExit(code)
                             ELSE Exception("<esptool error>")

\* Lines 435-437: the three downloads of the --sota branch.
SotaFirmware ==
    /\ pc = "sota_firmware"
    /\ Urlretrieve(UrlretrieveOutcomes(SotaUrl("firmware")), SotaUrl("firmware"),
                   "firmware.bin", <<>>, <<>>, "sota_partitions")
    /\ UNCHANGED <<config, aws_dir_files, spiffs, firmware_choice, firmware, missing_files,
                   boot_app0_found, invocations, spiffs_built_from, status_code,
                   exit_code>>

SotaPartitions ==
    /\ pc = "sota_partitions"
    /\ Urlretrieve(UrlretrieveOutcomes(SotaUrl("partitions")), SotaUrl("partitions"),
                   "partitions.bin", <<>>, <<>>, "sota_bootloader")
    /\ UNCHANGED <<config, aws_dir_files, spiffs, firmware_choice, firmware, missing_files,
                   boot_app0_found, invocations, spiffs_built_from, status_code,
                   exit_code>>

SotaBootloader ==
    /\ pc = "sota_bootloader"
    /\ Urlretrieve(UrlretrieveOutcomes(SotaUrl("bootloader")), SotaUrl("bootloader"),
                   "bootloader.bin", <<>>, <<>>, "sota_upload")
    /\ UNCHANGED <<config, aws_dir_files, spiffs, firmware_choice, firmware, missing_files,
                   boot_app0_found, invocations, spiffs_built_from, status_code,
                   exit_code>>

\* Lines 438-440: the --sota invocation, status_code = 0, raise SystemExit(0).
SotaUpload ==
    /\ pc = "sota_upload"
    /\ \E res \in FlashOutcomes, code \in FlashExitCodes :
        /\ invocations' = Append(invocations,
                                 [argv |-> ArgvSota(target_port), result |-> res])
        /\ status_code' = IF res = "ok" THEN 0 ELSE status_code
        /\ raised' = IF res = "ok" THEN SystemExit(0)
                     ELSE IF res = "exit" THEN SystemExit(code)
                     ELSE Exception("<esptool error>")
    /\ pc' = "handlers"
    /\ UNCHANGED <<config, aws_dir_files, spiffs, firmware_choice, firmware, missing_files,
                   boot_app0_found, acquired, fetched, spiffs_built_from, out,
                   exit_code>>

\* choices.get(firmware_choice) of lines 466-469.
Lookup(isDev, choice) ==
    LET choices == IF isDev THEN firmware_choices_dev ELSE firmware_choices
    IN IF choice \in DOMAIN choices THEN choices[choice] ELSE NoneProfile

\* The membership test of lines 444-445.
IsValidChoice(isDev, choice) ==
    choice \in DOMAIN (IF isDev THEN firmware_choices_dev ELSE firmware_choices)

\* The block that lines 472, 500 and 543 select after resolution.
AfterResolve(choice) ==
    IF choice = LocalOverrideId THEN "local_override"
    ELSE IF choice # NoDownloadId THEN "download_firmware"
    ELSE "upload"

\* Lines 442-469: the id from the flag or the prompt, the spiffs switch, the lookup.
Resolve ==
    /\ pc = "resolve"
    /\ IF cli_firmware_id # None
       THEN IF ~IsValidChoice(dev, cli_firmware_id)
            THEN /\ firmware_choice' = cli_firmware_id
                 /\ out' = Append(out, LineWith("Error: Invalid firmware ID \"{}\". Must be 1-30 (or 1-6 for -dev).", {cli_firmware_id}))
                 /\ raised' = SystemExit(1)
                 /\ pc' = "handlers"
                 /\ UNCHANGED <<spiffs, firmware>>
            ELSE /\ firmware_choice' = cli_firmware_id
                 /\ spiffs' = IF cli_firmware_id \in SpiffsDisabledIds THEN FALSE ELSE spiffs
                 /\ firmware' = Lookup(dev, cli_firmware_id)
                 /\ pc' = AfterResolve(cli_firmware_id)
                 /\ UNCHANGED <<out, raised>>
       ELSE \E typed \in Inputs :
                 /\ firmware_choice' = typed
                 /\ out' = out \o <<Line("Firmware Choices:"), Line("<menu>"), Line("")>>
                 /\ spiffs' = IF typed \in SpiffsDisabledIds THEN FALSE ELSE spiffs
                 /\ firmware' = Lookup(dev, typed)
                 /\ pc' = AfterResolve(typed)
                 /\ UNCHANGED raised
    /\ UNCHANGED <<config, aws_dir_files, missing_files, boot_app0_found, acquired, fetched,
                   invocations, spiffs_built_from, status_code, exit_code>>

\* Mutation: the check stops at the first missing file.
MissingFilesFirstOnly(present) ==
    LET absent == {n \in LocalNames : n \notin present}
    IN IF absent = {} THEN {} ELSE {CHOOSE n \in absent : TRUE}

\* Line 486: the names of local_files whose path does not exist.
MissingFiles(present) == {n \in LocalNames : n \notin present}

\* Lines 472-498: the bundled AWS directory is checked, then copied to __location__.
LocalOverride ==
    /\ pc = "local_override"
    /\ \E present \in SUBSET LocalNames :
        /\ aws_dir_files' = present
        /\ missing_files' = MissingFiles(present)
        /\ IF MissingFiles(present) # {}
           THEN /\ out' = out \o <<Line("Using local firmware files for WiFi AWS Gateway from AWS directory"),
                                   LineWith("Error: Missing local files in AWS directory: ", MissingFiles(present)),
                                   Line("Looking in: <aws_dir>")>>
                /\ raised' = SystemExit(1)
                /\ pc' = "handlers"
                /\ acquired' = acquired
           ELSE /\ out' = out \o <<Line("Using local firmware files for WiFi AWS Gateway from AWS directory"),
                                   Line("Found local firmware files in: <aws_dir>"),
                                   LineWith("Copied {name}.bin from AWS directory", LocalNames)>>
                /\ acquired' = acquired \cup {File(BinName(n), Location, "copy") : n \in LocalNames}
                /\ raised' = raised
                /\ pc' = "upload"
    /\ UNCHANGED <<config, spiffs, firmware_choice, firmware, boot_app0_found,
                   fetched, invocations, spiffs_built_from, status_code, exit_code>>

\* urlretrieve(str(firmware.get(kind)), dest): firmware may be None, and so may
\* the location; the first raises AttributeError, the second makes the text 'None'.
CatalogOutcomes(profile, kind) ==
    IF profile = NoneProfile
    THEN {[net |-> FALSE, ok |-> FALSE, msg |-> "'NoneType' object has no attribute 'get'"]}
    ELSE UrlretrieveOutcomes(Str(Get(profile, kind)))

CatalogUrl(profile, kind) ==
    IF profile = NoneProfile THEN "None" ELSE Str(Get(profile, kind))

\* The block line 506 selects after the firmware download.
AfterFirmware(withSpiffs) == IF withSpiffs THEN "acquire_spiffs" ELSE "upload"

\* Lines 501-504.
DownloadFirmware ==
    /\ pc = "download_firmware"
    /\ Urlretrieve(CatalogOutcomes(firmware, "firmware"), CatalogUrl(firmware, "firmware"),
                   "firmware.bin",
                   <<Line("[PROGRESS] Downloading firmware...")>>,
                   <<Line("[PROGRESS] Firmware downloaded")>>,
                   AfterFirmware(spiffs))
    /\ UNCHANGED <<config, aws_dir_files, spiffs, firmware_choice, firmware, missing_files,
                   boot_app0_found, invocations, spiffs_built_from, status_code,
                   exit_code>>

\* Lines 513-517: the SPIFFS image is downloaded.
DownloadSpiffs ==
    /\ pc = "acquire_spiffs"
    /\ cli_spiffs_project_dir = None
    /\ Urlretrieve(CatalogOutcomes(firmware, "spiffs"), CatalogUrl(firmware, "spiffs"),
                   "spiffs.bin",
                   <<Line("[PROGRESS] Downloading SPIFFS...")>>,
                   <<Line("[PROGRESS] SPIFFS downloaded")>>,
                   "download_bootloader")
    /\ UNCHANGED <<config, aws_dir_files, spiffs, firmware_choice, firmware, missing_files,
                   boot_app0_found, invocations, spiffs_built_from, status_code,
                   exit_code>>

\* The results the call of line 511 can have in this run.
BuildChoices ==
    IF build_env = AnyEnv THEN BuildResults ELSE {BuildResult(build_env)}

\* Mutation: a failure of the build is ignored and the script goes on.
BuildSpiffsIgnoringFailure ==
    /\ pc = "acquire_spiffs"
    /\ cli_spiffs_project_dir # None
    /\ \E r \in BuildResults :
        /\ acquired' = IF r.raise = NoRaise
                       THEN acquired \cup {File("spiffs.bin", "cwd", "build")}
                       ELSE acquired
        /\ spiffs_built_from' = r.src
        /\ out' = out \o <<Line("[PROGRESS] Building SPIFFS from project...")>>
                      \o r.lines \o <<Line("[PROGRESS] SPIFFS built")>>
    /\ raised' = raised
    /\ pc' = "download_bootloader"
    /\ UNCHANGED <<config, aws_dir_files, spiffs, firmware_choice, firmware,
                   missing_files, boot_app0_found, fetched, invocations, status_code,
                   exit_code>>

\* Lines 508-512: the SPIFFS image is built from the project.
BuildSpiffs ==
    /\ pc = "acquire_spiffs"
    /\ cli_spiffs_project_dir # None
    /\ \E r \in BuildChoices :
        IF r.raise = NoRaise
        THEN /\ acquired' = acquired \cup {File("spiffs.bin", "cwd", "build")}
             /\ spiffs_built_from' = r.src
             /\ out' = out \o <<Line("[PROGRESS] Building SPIFFS from project...")>>
                           \o r.lines \o <<Line("[PROGRESS] SPIFFS built")>>
             /\ raised' = raised
             /\ pc' = "download_bootloader"
        ELSE /\ out' = out \o <<Line("[PROGRESS] Building SPIFFS from project...")>>
                           \o r.lines
             /\ raised' = r.raise
             /\ pc' = "handlers"
             /\ UNCHANGED <<acquired, spiffs_built_from>>
    /\ UNCHANGED <<config, aws_dir_files, spiffs, firmware_choice, firmware, missing_files,
                   boot_app0_found, fetched, invocations, status_code, exit_code>>

\* Lines 519-522.
DownloadBootloader ==
    /\ pc = "download_bootloader"
    /\ Urlretrieve(CatalogOutcomes(firmware, "bootloader"), CatalogUrl(firmware, "bootloader"),
                   "bootloader.bin",
                   <<Line("[PROGRESS] Downloading bootloader...")>>,
                   <<Line("[PROGRESS] Bootloader downloaded")>>,
                   "download_partitions")
    /\ UNCHANGED <<config, aws_dir_files, spiffs, firmware_choice, firmware, missing_files,
                   boot_app0_found, invocations, spiffs_built_from, status_code,
                   exit_code>>

\* Lines 524-527.
DownloadPartitions ==
    /\ pc = "download_partitions"
    /\ Urlretrieve(CatalogOutcomes(firmware, "partitions"), CatalogUrl(firmware, "partitions"),
                   "partitions.bin",
                   <<Line("[PROGRESS] Downloading partitions...")>>,
                   <<Line("[PROGRESS] Partitions downloaded")>>,
                   "copy_boot_app0")
    /\ UNCHANGED <<config, aws_dir_files, spiffs, firmware_choice, firmware, missing_files,
                   boot_app0_found, invocations, spiffs_built_from, status_code,
                   exit_code>>

\* Lines 529-541: boot_app0.bin is copied when the AWS directory has it.
CopyBootApp0 ==
    /\ pc = "copy_boot_app0"
    /\ \E exists \in BOOLEAN :
        /\ boot_app0_found' = IF exists THEN "found" ELSE "absent"
        /\ acquired' = IF exists THEN acquired \cup {File("boot_app0.bin", "cwd", "copy")}
                       ELSE acquired
        /\ out' = out
                  \o <<IF exists THEN Line("[PROGRESS] Copied boot_app0.bin")
                       ELSE Line("Warning: boot_app0.bin not found in AWS directory: <aws_boot_app0>")>>
                  \o <<Line(""), Line("[PROGRESS] Starting upload to device...")>>
    /\ pc' = "upload"
    /\ UNCHANGED <<config, aws_dir_files, spiffs, firmware_choice, firmware, missing_files, fetched,
                   invocations, spiffs_built_from, raised, status_code, exit_code>>

\* Lines 543-556: the first (for most ids the only) call of esptool.main.
Upload ==
    /\ pc = "upload"
    /\ EsptoolMain(UploadArgv(firmware_choice, spiffs, target_port),
                   IF HasSecondUpload(firmware_choice) THEN "upload_spiffs" ELSE "handlers")
    /\ out' = IF firmware_choice # LocalOverrideId /\ ~spiffs
              THEN Append(out, Line("no spiffs")) ELSE out
    /\ UNCHANGED <<config, aws_dir_files, spiffs, firmware_choice, firmware, missing_files,
                   boot_app0_found, acquired, fetched, spiffs_built_from, status_code,
                   exit_code>>

\* Line 545: the second call for the local-override id.
UploadSpiffs ==
    /\ pc = "upload_spiffs"
    /\ EsptoolMain(ArgvLocalOverrideSpiffs(target_port), "handlers")
    /\ UNCHANGED <<config, aws_dir_files, spiffs, firmware_choice, firmware, missing_files,
                   boot_app0_found, acquired, fetched, spiffs_built_from, out,
                   status_code, exit_code>>

\* Lines 557-564: the except and else clauses of the try block.
Handlers ==
    /\ pc = "handlers"
    /\ IF raised.kind = "SystemExit"
       THEN /\ status_code' = raised.code
            /\ out' = out
       ELSE IF raised.kind = "Exception"
       THEN /\ status_code' = 1
            /\ out' = out \o <<Line("Status: Failure"), LineWith("{}", {raised.msg})>>
       ELSE /\ status_code' = 0
            /\ out' = out
    /\ pc' = "report"
    /\ UNCHANGED <<config, aws_dir_files, spiffs, firmware_choice, firmware, missing_files,
                   boot_app0_found, acquired, fetched, invocations, spiffs_built_from,
                   raised, exit_code>>

\* Mutation: the script always ends with sys.exit(1).
ReportExitsOne ==
    /\ pc = "report"
    /\ out' = Append(out, IF status_code = 0 THEN Line("Status: Success")
                          ELSE Line("Status: Failure"))
    /\ exit_code' = 1
    /\ pc' = "done"
    /\ UNCHANGED <<config, aws_dir_files, spiffs, firmware_choice, firmware, missing_files,
                   boot_app0_found, acquired, fetched, invocations, spiffs_built_from,
                   raised, status_code>>

\* Lines 566-570: the status line and sys.exit(status_code).
Report ==
    /\ pc = "report"
    /\ out' = Append(out, IF status_code = 0 THEN Line("Status: Success")
                          ELSE Line("Status: Failure"))
    /\ exit_code' = status_code
    /\ pc' = "done"
    /\ UNCHANGED <<config, aws_dir_files, spiffs, firmware_choice, firmware, missing_files,
                   boot_app0_found, acquired, fetched, invocations, spiffs_built_from,
                   raised, status_code>>

Next ==
    \/ SotaFirmware
    \/ SotaPartitions
    \/ SotaBootloader
    \/ SotaUpload
    \/ Resolve
    \/ LocalOverride
    \/ DownloadFirmware
    \/ DownloadSpiffs
    \/ BuildSpiffs
    \/ DownloadBootloader
    \/ DownloadPartitions
    \/ CopyBootApp0
    \/ Upload
    \/ UploadSpiffs
    \/ Handlers
    \/ Report

Spec == Init /\ [][Next]_vars

\* The script is one sequential thread: a step that is reached is executed, and
\* every call to a collaborator (prompt, download, build, flashing tool) returns
\* or raises.
FairSpec == Spec /\ WF_vars(Next)

\* The steps of a run for an id of the default download block.
SearchNext ==
    \/ Resolve
    \/ DownloadFirmware
    \/ BuildSpiffs
    \/ DownloadBootloader
    \/ DownloadPartitions
    \/ CopyBootApp0
    \/ Upload
    \/ Handlers
    \/ Report

\* Runs that build the SPIFFS image, over every build environment.
SearchSpec == SearchInit /\ [][SearchNext]_vars

(***************************************************************************)
(* Vocabulary of the properties.                                           *)
(***************************************************************************)

\* The file names this run has written into the working directory.
AcquiredInCwd == {a.file : a \in {b \in acquired : b.dir = "cwd"}}

\* The texts of the lines printed so far.
Printed == {out[i].text : i \in 1..Len(out)}

\* A SPIFFS download or build has been started.
SpiffsAttempted ==
    \/ pc = "acquire_spiffs"
    \/ "[PROGRESS] Downloading SPIFFS..." \in Printed
    \/ "[PROGRESS] Building SPIFFS from project..." \in Printed

\* Some invocation has a step that writes spiffs.bin.
SpiffsStepPresent ==
    \E i \in 1..Len(invocations) :
        \E s \in StepSet(invocations[i].argv) : s.file = "spiffs.bin"

\* An acquisition step or an invocation of this run has failed.
Failed ==
    \/ \E i \in 1..Len(invocations) : invocations[i].result # "ok"
    \/ raised.kind = "Exception"
    \/ raised.kind = "SystemExit" /\ raised.code # 0

\* The table of the selected channel.
SelectedTable == IF dev THEN firmware_choices_dev ELSE firmware_choices

\* C1: in every run the first flashing invocation writes bootloader at 0x1000,
\* partitions at 0x8000 and firmware at 0x10000.
C1_CoreAddressMap ==
    invocations # <<>> =>
        {[addr |-> 4096, file |-> "bootloader.bin"],
         [addr |-> 32768, file |-> "partitions.bin"],
         [addr |-> 65536, file |-> "firmware.bin"]}
            \subseteq StepSet(invocations[1].argv)

\* C2: every file an invocation names was written into the working directory by
\* an acquisition step of the same run.
C2_FlashedFilesAcquired ==
    \A i \in 1..Len(invocations) :
        \A s \in StepSet(invocations[i].argv) : s.file \in AcquiredInCwd

\* C3: for id 1 a run whose invocations all succeed makes two invocations when
\* SPIFFS is requested, the second writing only SPIFFS at 0x290000, and one
\* invocation without a SPIFFS step under --no-spiffs.
C3_LocalOverrideInvocations ==
    (/\ pc = "done"
     /\ firmware_choice = "1"
     /\ invocations # <<>>
     /\ \A i \in 1..Len(invocations) : invocations[i].result = "ok")
    => IF no_spiffs
       THEN Len(invocations) = 1 /\ ~SpiffsStepPresent
       ELSE /\ Len(invocations) = 2
            /\ Steps(invocations[2].argv) = <<[addr |-> 2686976, file |-> "spiffs.bin"]>>

\* C4: a SPIFFS step is at 0x383000 for ids 5 and 14 and at 0x290000 for every
\* other id; SPIFFS is never placed at any other address.
C4_SpiffsAddress ==
    \A i \in 1..Len(invocations) :
        \A s \in StepSet(invocations[i].argv) :
            s.file = "spiffs.bin" =>
                s.addr = IF firmware_choice \in {"5", "14"} THEN 3682304 ELSE 2686976

\* C4 witness: id 14 has been flashed with a SPIFFS step at 0x383000.
C4_Witness ==
    /\ firmware_choice = "14"
    /\ invocations # <<>>
    /\ [addr |-> 3682304, file |-> "spiffs.bin"] \in StepSet(invocations[1].argv)

\* C5: for ids 19 and 20 no invocation has a SPIFFS step and no SPIFFS download
\* or build is attempted, whatever the caller asked for.
C5_DisabledSpiffs ==
    firmware_choice \in {"19", "20"} =>
        /\ ~SpiffsStepPresent
        /\ ~SpiffsAttempted
        /\ "spiffs.bin" \notin {a.file : a \in acquired}
        /\ spiffs_built_from = NoImage

\* C5 witness: id 20 was flashed although SPIFFS was requested with a build path.
C5_Witness ==
    /\ firmware_choice = "20"
    /\ ~no_spiffs
    /\ cli_spiffs_project_dir # None
    /\ Len(invocations) = 1
    /\ pc = "done"

\* C6: for a profile without a SPIFFS location the run does not try to acquire
\* SPIFFS, no invocation has a SPIFFS step, and a run whose steps all succeed
\* flashes the remaining assets.
C6_NoSpiffsLocationOmitsSpiffs ==
    (/\ firmware_choice \in DOMAIN SelectedTable
     /\ "spiffs" \notin DOMAIN SelectedTable[firmware_choice])
    => /\ ~SpiffsAttempted
       /\ ~SpiffsStepPresent
       /\ (pc = "done" /\ ~Failed => invocations # <<>>)

\* C7: for id 20 with SPIFFS requested, four assets, none of them SPIFFS and
\* among them bootloader and partitions, are acquired before the invocation.
C7_ScenarioB ==
    (firmware_choice = "20" /\ ~no_spiffs /\ invocations # <<>>)
    => /\ Cardinality({a.file : a \in acquired}) = 4
       /\ "spiffs.bin" \notin {a.file : a \in acquired}
       /\ {"bootloader.bin", "partitions.bin"} \subseteq {a.file : a \in acquired}

\* C8: an id outside the table of the selected channel makes no network call,
\* never reaches the flashing tool and exits with code 1; an id of the stable
\* table under the stable channel resolves to its profile.
C8_UnknownIdFails ==
    /\ (firmware_choice # None /\ firmware_choice \notin DOMAIN SelectedTable)
       => /\ fetched = <<>>
          /\ invocations = <<>>
          /\ (pc = "done" => exit_code = 1)
    /\ (firmware_choice \in DOMAIN firmware_choices /\ ~dev)
       => firmware = firmware_choices[firmware_choice]

\* C9: every profile of both tables has a firmware, a bootloader and a
\* partitions location: whichever profile a run resolves, it has all three.
C9_ProfilesComplete ==
    firmware # NoneProfile =>
        {"firmware", "bootloader", "partitions"} \subseteq DOMAIN firmware

\* C10: once an acquisition step or an invocation has failed, no later
\* acquisition step and no later invocation is executed, and the run ends failed.
C10_ShortCircuit ==
    /\ [][Failed => /\ acquired' = acquired
                    /\ fetched' = fetched
                    /\ invocations' = invocations
                    /\ spiffs_built_from' = spiffs_built_from
                    /\ Failed']_vars
    /\ [](pc = "done" /\ Failed =>
            /\ exit_code # 0
            /\ out[Len(out)] = Line("Status: Failure"))

\* C10 witness: the first invocation for id 1 failed and the run has ended
\* without the second one.
C10_Witness ==
    /\ pc = "done"
    /\ firmware_choice = "1"
    /\ Len(invocations) = 1
    /\ invocations[1].result = "error"

\* The last line printed.
LastLine == out[Len(out)]

\* C11: every run terminates; its last line is 'Status: Success' or
\* 'Status: Failure', and the exit code is 0 exactly when it is 'Status: Success'.
C11_TerminatesWithStatus ==
    /\ <>(pc = "done")
    /\ [](pc = "done" =>
            /\ LastLine \in {Line("Status: Success"), Line("Status: Failure")}
            /\ (exit_code = 0 <=> LastLine = Line("Status: Success")))

\* C11 witness: a run has ended with 'Status: Success' and exit code 0.
C11_Witness ==
    /\ pc = "done"
    /\ exit_code = 0
    /\ LastLine = Line("Status: Success")
    /\ invocations # <<>>

\* C12: the exit code is always 0 or 1, whatever failed.
C12_ExitCodeZeroOrOne ==
    pc = "done" => exit_code \in {0, 1}

\* The positions of the lines that report missing local files.
MissingFileReports ==
    {i \in 1..Len(out) : out[i].text = "Error: Missing local files in AWS directory: "}

\* C13: for id 1, when some of the five local files are missing, one error line
\* lists every missing file, nothing is copied, the flashing tool is not
\* invoked and the exit code is 1.
C13_MissingLocalFiles ==
    (/\ firmware_choice = "1"
     /\ pc \notin {"resolve", "local_override"}
     /\ aws_dir_files # LocalNames)
    => /\ Cardinality(MissingFileReports) = 1
       /\ \A i \in MissingFileReports : out[i].arg = LocalNames \ aws_dir_files
       /\ acquired = {}
       /\ invocations = <<>>
       /\ (pc = "done" => exit_code = 1)

\* C13 witness: a run for id 1 ended with two of the five files missing.
C13_Witness ==
    /\ firmware_choice = "1"
    /\ pc = "done"
    /\ aws_dir_files = {"firmware", "spiffs", "bootloader"}
    /\ exit_code = 1

\* The SPIFFS build was started and copied no image.
BuildFailed ==
    /\ "[PROGRESS] Building SPIFFS from project..." \in Printed
    /\ spiffs_built_from = NoImage

\* C14: when the SPIFFS build is attempted and fails for any reason, the run
\* invokes the flashing tool not once and exits with code 1.
C14_BuildFailureStopsRun ==
    BuildFailed =>
        /\ invocations = <<>>
        /\ pc \in {"handlers", "report", "done"}
        /\ (pc = "done" => exit_code = 1 /\ LastLine = Line("Status: Failure"))

\* C14 witness: a run ended after the build tool timed out.
C14_Witness ==
    /\ pc = "done"
    /\ BuildFailed
    /\ raised = Exception("<TimeoutExpired>")
    /\ exit_code = 1

\* s is an initial part of t.
IsPrefix(s, t) == Len(s) <= Len(t) /\ \A i \in 1..Len(s) : s[i] = t[i]

\* C15: with --sota the catalog is not consulted; the run fetches the three
\* fixed SOTA assets, makes at most one invocation, with steps at 0x1000, 0x8000
\* and 0x10000, and its steps and exit status are determined by the outcomes of
\* the downloads and of the tool alone, not by the id, the channel, the SPIFFS
\* option or the build path.
C15_SotaOverride ==
    sota =>
        /\ firmware_choice = None
        /\ firmware = NoneProfile
        /\ ~SpiffsAttempted
        /\ IsPrefix(fetched,
                    <<"https://ncd-esp32.s3.amazonaws.com/SOTA_Relay/firmware.bin",
                      "https://ncd-esp32.s3.amazonaws.com/SOTA_Relay/partitions.bin",
                      "https://ncd-esp32.s3.amazonaws.com/SOTA_Relay/bootloader.bin">>)
        /\ Len(invocations) <= 1
        /\ \A i \in 1..Len(invocations) :
            /\ Steps(invocations[i].argv) =
                   <<[addr |-> 4096, file |-> "bootloader.bin"],
                     [addr |-> 32768, file |-> "partitions.bin"],
                     [addr |-> 65536, file |-> "firmware.bin"]>>
            /\ Len(fetched) = 3
            /\ acquired = {File("firmware.bin", "cwd", "download"),
                           File("partitions.bin", "cwd", "download"),
                           File("bootloader.bin", "cwd", "download")}
        /\ (pc = "done" =>
                (exit_code = 0 <=> Len(invocations) = 1 /\ invocations[1].result = "ok"))

\* C15 witness: a --sota run given an unknown id, the dev channel, --no-spiffs
\* and a build path has flashed and ended with exit code 0.
C15_Witness ==
    /\ sota
    /\ cli_firmware_id = "99"
    /\ dev
    /\ no_spiffs
    /\ cli_spiffs_project_dir # None
    /\ pc = "done"
    /\ exit_code = 0
    /\ Len(invocations) = 1

\* The invocation has a step at 0xe000.
HasBootApp0Step(argv) == \E s \in StepSet(argv) : s.addr = 57344

\* The parameters of the fixed-4MB family, with the boot-stage-0 step.
FixedFourMB(argv) ==
    /\ Option(argv, "--flash_mode") = "dio"
    /\ Option(argv, "--flash_freq") = "80m"
    /\ Option(argv, "--flash_size") = "4MB"
    /\ HasBootApp0Step(argv)

\* The parameters of the detect-size family, without the boot-stage-0 step.
DetectSize(argv) ==
    /\ Option(argv, "--flash_mode") = "dio"
    /\ Option(argv, "--flash_freq") = "40m"
    /\ Option(argv, "--flash_size") = "detect"
    /\ ~HasBootApp0Step(argv)

\* C16 as stated: every invocation for an id other than 1 uses dio, 40MHz and
\* detect and has no step at 0xe000.
C16_OnlyIdOneFixedFourMB ==
    \A i \in 1..Len(invocations) :
        firmware_choice # "1" => DetectSize(invocations[i].argv)

\* C16 as amended: 80MHz, 4MB and the step at 0xe000 are used by the first
\* invocation of id 1 and by the invocation of every id other than 1, 5 and 14
\* when SPIFFS is flashed; the second invocation of id 1 has no step at 0xe000;
\* every other invocation (ids 5 and 14, any id but 1 without SPIFFS, --sota)
\* uses dio, 40MHz and detect and has no step at 0xe000.
C16_FlashFamilies ==
    \A i \in 1..Len(invocations) :
        IF sota THEN DetectSize(invocations[i].argv)
        ELSE IF firmware_choice = "1"
        THEN /\ i = 1 => FixedFourMB(invocations[i].argv)
             /\ i = 2 => ~HasBootApp0Step(invocations[i].argv)
        ELSE IF spiffs /\ firmware_choice \notin {"5", "14"}
        THEN FixedFourMB(invocations[i].argv)
        ELSE DetectSize(invocations[i].argv)

\* C16 witness: id 3 has been flashed with the fixed-4MB parameters.
C16_Witness ==
    /\ firmware_choice = "3"
    /\ invocations # <<>>
    /\ FixedFourMB(invocations[1].argv)

\* The addresses of the steps of one invocation, in order.
StepAddrs(argv) == [i \in 1..Len(Steps(argv)) |-> Steps(argv)[i].addr]

\* C17: for id 3 on the stable channel with SPIFFS requested, an invocation has
\* the steps 0x1000, 0x8000, 0xe000, 0x10000, 0x290000, there is at most one, and
\* a run in which no acquisition step and no invocation fails makes exactly one
\* and ends with 'Status: Success' and exit code 0.
C17_ScenarioA ==
    (firmware_choice = "3" /\ ~dev /\ ~no_spiffs) =>
        /\ Len(invocations) <= 1
        /\ \A i \in 1..Len(invocations) :
               StepAddrs(invocations[i].argv) = <<4096, 32768, 57344, 65536, 2686976>>
        /\ (pc = "done" /\ ~Failed =>
                /\ Len(invocations) = 1
                /\ exit_code = 0
                /\ LastLine = Line("Status: Success"))

\* C17 witness: such a run for id 3 has downloaded four files, flashed and
\* ended with exit code 0.
C17_Witness ==
    /\ firmware_choice = "3"
    /\ ~dev
    /\ ~no_spiffs
    /\ cli_spiffs_project_dir = None
    /\ Len(fetched) = 4
    /\ pc = "done"
    /\ exit_code = 0

\* The argument list lines 543-556 give to the first invocation of this run.
ActivePlan == UploadArgv(firmware_choice, spiffs, target_port)

\* C18: when boot_app0.bin is absent and the plan has a step at 0xe000, the run
\* fails without invoking the flashing tool; when the plan has no such step its
\* absence is only warned about.
C18_BootApp0Absence ==
    boot_app0_found = "absent" =>
        IF HasBootApp0Step(ActivePlan)
        THEN /\ invocations = <<>>
             /\ pc \in {"handlers", "report", "done"}
             /\ (pc = "done" => exit_code = 1)
        ELSE "Warning: boot_app0.bin not found in AWS directory: <aws_boot_app0>" \in Printed

\* C19: every invocation carries a baud rate, --before default_reset, --after
\* hard_reset, a flash-mode, a flash-freq, a flash-size and a step list.
C19_InvocationParameters ==
    \A i \in 1..Len(invocations) :
        /\ Option(invocations[i].argv, "--baud") # None
        /\ Option(invocations[i].argv, "--before") = "default_reset"
        /\ Option(invocations[i].argv, "--after") = "hard_reset"
        /\ Option(invocations[i].argv, "--flash_mode") # None
        /\ Option(invocations[i].argv, "--flash_freq") # None
        /\ Option(invocations[i].argv, "--flash_size") # None
        /\ Steps(invocations[i].argv) # <<>>

\* The [PROGRESS] lines that announce the acquisition of a file.
StageMarkers(a) ==
    IF a.by = "build" THEN {"[PROGRESS] Building SPIFFS from project..."}
    ELSE IF a.by = "copy" THEN {"[PROGRESS] Copied boot_app0.bin"}
    ELSE CASE a.file = "firmware.bin" -> {"[PROGRESS] Downloading firmware..."}
           [] a.file = "spiffs.bin" -> {"[PROGRESS] Downloading SPIFFS..."}
           [] a.file = "bootloader.bin" -> {"[PROGRESS] Downloading bootloader..."}
           [] a.file = "partitions.bin" -> {"[PROGRESS] Downloading partitions..."}

\* C20: on every path every acquired file and every invocation has a [PROGRESS]
\* marker of its stage printed for it.
C20_ProgressMarkers ==
    /\ \A a \in acquired : StageMarkers(a) \cap Printed # {}
    /\ invocations # <<>> => "[PROGRESS] Starting upload to device..." \in Printed

\* The fixed file names of the assets.
FixedNames ==
    {"firmware.bin", "spiffs.bin", "bootloader.bin", "partitions.bin", "boot_app0.bin"}

\* C21: every acquired asset is written under its fixed name into the working
\* directory, the directory the invocations read from, also when the working
\* directory is not the directory of the script.
C21_AssetsInWorkingDirectory ==
    \A a \in acquired : a.file \in FixedNames /\ a.dir = "cwd"

\* The argument lists of the invocations made so far, in order.
InvokedArgvs == [i \in 1..Len(invocations) |-> invocations[i].argv]

\* The invocations a run with these inputs makes when nothing fails, as a
\* function of the SOTA flag, the id, the SPIFFS option and the port only.
PlannedArgvs ==
    IF sota THEN <<ArgvSota(target_port)>>
    ELSE IF firmware_choice = "1"
    THEN <<ArgvLocalOverride(target_port), ArgvLocalOverrideSpiffs(target_port)>>
    ELSE IF no_spiffs \/ firmware_choice \in {"19", "20"}
    THEN <<ArgvNoSpiffs(target_port)>>
    ELSE IF firmware_choice \in {"5", "14"}
    THEN <<ArgvCustomLayout(target_port)>>
    ELSE <<ArgvDefaultSpiffs(target_port)>>

\* C22: the sequence of invocations is determined by the id, the SPIFFS option,
\* the SOTA flag and the port: what a run has invoked is always an initial part
\* of one fixed sequence for these inputs, whatever the channel, the acquisition
\* outcomes and the files on disk, and a run without failure invokes all of it.
C22_DeterministicPlan ==
    /\ IsPrefix(InvokedArgvs, PlannedArgvs)
    /\ (pc = "done" /\ ~Failed => InvokedArgvs = PlannedArgvs)

\* C22 witness: id 3 was flashed in a run that found no boot_app0.bin on disk.
C22_Witness ==
    /\ firmware_choice = "3"
    /\ boot_app0_found = "absent"
    /\ Len(invocations) = 1
    /\ pc = "done"

\* C23: when a build path is supplied and an invocation has a SPIFFS step, the
\* spiffs.bin in the working directory is the image built in this run, and no
\* downloaded or bundled one.
C23_BuiltSpiffsIsFlashed ==
    (cli_spiffs_project_dir # None /\ SpiffsStepPresent) =>
        /\ File("spiffs.bin", "cwd", "build") \in acquired
        /\ spiffs_built_from # NoImage
        /\ \A a \in acquired : a.file = "spiffs.bin" => a.by = "build"

\* The build tool ran and left a build output tree.
BuildCompleted ==
    /\ "[PROGRESS] Building SPIFFS from project..." \in Printed
    /\ build_env.isdir
    /\ build_env.pio = "ok"
    /\ build_env.build_dir

\* The places of the build tree that hold a file of the given names.
PlacesOf(names) ==
    {p \in (1..Len(build_env.tree)) \X (1..MaxDirFiles + 1) :
        /\ build_env.tree[p[1]].isdir
        /\ p[2] <= Len(build_env.tree[p[1]].names)
        /\ build_env.tree[p[1]].names[p[2]] \in names}

\* C24: after a successful build, if some environment directory holds a file
\* named spiffs.bin the copied image is such a file; a file that only carries
\* the marker is copied only when no spiffs.bin exists; when neither exists
\* nothing is copied and the run fails with exit code 1.
C24_TwoStageSearch ==
    BuildCompleted =>
        /\ PlacesOf({"spiffs.bin"}) # {} =>
               /\ spiffs_built_from.name = "spiffs.bin"
               /\ \E p \in PlacesOf({"spiffs.bin"}) : p[1] = spiffs_built_from.env
               /\ File("spiffs.bin", "cwd", "build") \in acquired
        /\ (spiffs_built_from # NoImage /\ spiffs_built_from.name # "spiffs.bin") =>
               /\ PlacesOf({"spiffs.bin"}) = {}
               /\ \E p \in PlacesOf({"SPIFFS_image.bin"}) : p[1] = spiffs_built_from.env
        /\ PlacesOf({"spiffs.bin", "SPIFFS_image.bin"}) = {} =>
               /\ spiffs_built_from = NoImage
               /\ File("spiffs.bin", "cwd", "build") \notin acquired
               /\ invocations = <<>>
               /\ (pc = "done" => exit_code = 1)

\* C24 witness: a directory listing SPIFFS_image.bin before spiffs.bin was
\* searched and spiffs.bin was copied.
C24_Witness ==
    /\ BuildCompleted
    /\ build_env.tree = <<[isdir |-> TRUE, names |-> <<"SPIFFS_image.bin", "spiffs.bin">>]>>
    /\ spiffs_built_from = [env |-> 1, name |-> "spiffs.bin"]
    /\ pc = "done"

\* The positions of the output that hold a status line.
StatusLines ==
    {i \in 1..Len(out) : out[i].text \in {"Status: Success", "Status: Failure"}}

\* C25: a finished run has printed exactly one status line.
C25_OneStatusLine ==
    pc = "done" => Cardinality(StatusLines) = 1

\* The run has ended with the success line and exit code 0.
SuccessReported ==
    /\ pc = "done"
    /\ exit_code = 0
    /\ LastLine.text = "Status: Success"

\* The files the invocations made so far name.
FlashedFiles ==
    UNION {{s.file : s \in StepSet(invocations[i].argv)} : i \in 1..Len(invocations)}

\* C26: a run that reports success has invoked the flashing tool, has made every
\* invocation of its plan without a failure, and has skipped or failed no
\* acquisition step of a file it flashed.
C26_SuccessOnlyAfterFullRun ==
    SuccessReported =>
        /\ invocations # <<>>
        /\ ~Failed
        /\ InvokedArgvs = PlannedArgvs
        /\ FlashedFiles \subseteq AcquiredInCwd

====
